---- MODULE Spec2Model ----
(***************************************************************************)
(* Transaction approval, account-balance maintenance, the role gate, the   *)
(* settings (users, categories), invoicing and the dashboard aggregation   *)
(* of the finance tracker (server/routes.ts, server/storage.ts,            *)
(* shared/schema.ts).                                                      *)
(*                                                                         *)
(* Money is counted in paise (hundredths of a rupee): every decimal(12,2)  *)
(* column is an integer here, and sums of Number(...) values are exact.    *)
(* Instants are integers, see Instant.                                     *)
(***************************************************************************)
EXTENDS Integers, Sequences, FiniteSets, TLC

\* ------------------------------------------------------------------ bounds
MaxAccounts == 2
MaxTransactions == 1

\* ------------------------------------------------------- program constants
\* a nullable integer column holding SQL NULL (ids are serial, from 1)
NULL == 0
\* req.session.userId of a request that carries no session
NoSession == 0
\* slice(0, 5) of topExpenses
TopN == 5
\* "Assuming 5 Lakh limit", in paise
OdLimit == 50000000

TransactionTypes == {"income", "expense", "transfer", "opening_balance"}
TransactionStatuses == {"draft", "submitted", "approved", "rejected"}
UserRoles == {"admin", "hr", "manager", "data_entry"}
AccountTypes == {"current", "od_cc", "cash", "upi"}

\* ------------------------------------------------------------------- state
VARIABLES
  appUsers,       \* app_users: id -> [email, password, role, isActive]
  nextUserId,     \* the serial of app_users.id
  categories,     \* categories: id -> [name, isEnabled, isSystem]
  nextCategoryId, \* the serial of categories.id
  clients,        \* clients: the rows in the order of their ids
  invoices,       \* invoices: the rows in the order of their ids
  invoiceItems,   \* invoice_items: the rows in the order of their ids
  accounts,       \* accounts: id -> [type, openingBalance, currentBalance, isActive]
  nextAccountId,  \* the serial of accounts.id
  transactions,   \* transactions: id -> row
  nextTxId,       \* the serial of transactions.id
  balanceRuns,    \* history: id -> number of runs of updateAccountBalances on it
  procs,          \* approve requests in progress, one per request slot
  resp            \* the last HTTP response

vars == <<appUsers, nextUserId, categories, nextCategoryId, clients, invoices,
          invoiceItems, accounts, nextAccountId, transactions, nextTxId,
          balanceRuns, procs, resp>>

\* the tables of the settings pages and of invoicing, with their serials
settings == <<appUsers, nextUserId, categories, nextCategoryId>>
invoicing == <<clients, invoices, invoiceItems>>

AccountIds == 1..MaxAccounts

\* ---------------------------------------------------------------- helpers
RECURSIVE SumOver(_, _)
\* Array.prototype.reduce((sum, x) => sum + f[x], 0) over the rows S
SumOver(S, f) ==
  IF S = {} THEN 0
  ELSE LET x == CHOOSE y \in S : TRUE IN f[x] + SumOver(S \ {x}, f)

Abs(n) == IF n < 0 THEN -n ELSE n
Min(a, b) == IF a < b THEN a ELSE b

\* ------------------------------------------------------- role permissions
\* the permission to create given to every role
canCreateTransactionsAnyRole(role) == role \in UserRoles

canCreateTransactions(role) == role \in {"admin", "hr", "data_entry"}

canApproveTransactions(role) == role = "admin"

\* the permission to create invoices given to every role
canCreateInvoicesAnyRole(role) == role \in UserRoles

canCreateInvoices(role) == role \in {"admin", "manager"}

\* getCurrentUser: the stored user of the session, or none
HasCurrentUser(sid) == sid # NoSession /\ sid \in DOMAIN appUsers

\* the role kept from the time the session was opened, for the session of the
\* seeded administrator (user 1)
RoleOfSessionOpened(sid) == IF sid = 1 THEN "admin" ELSE appUsers[sid].role

\* the role of the session's user, read from the store by every request:
\* storage.getAppUserById(req.session.userId), then user.role
RoleOf(sid) == appUsers[sid].role

\* the middleware isAuthenticated: the code it answers, 0 when it calls next()
isAuthenticated(sid) == IF sid = NoSession THEN 401 ELSE 0

\* the middleware isAdmin: the code it answers, 0 when it calls next()
isAdmin(sid) ==
  IF sid = NoSession THEN 401
  ELSE IF ~HasCurrentUser(sid) \/ RoleOf(sid) # "admin" THEN 403
  ELSE 0

\* ---------------------------------------------------------------- calendar
\* An instant is an integer: month m (from 1), day d of the month (from 1), and
\* the position i of the instant inside the day (0 is midnight).  The server's
\* local time is taken to be UTC, so that new Date("YYYY-MM-01") falls in the
\* month it names.
DaysPerMonth == 2
InstantsPerDay == 2

Instant(m, d, i) == ((m - 1) * DaysPerMonth + (d - 1)) * InstantsPerDay + i

MonthOf(t) == (t \div (DaysPerMonth * InstantsPerDay)) + 1

\* new Date(y, m, 1): midnight that opens the first day
StartOfMonth(m) == Instant(m, 1, 0)

\* new Date(y, m + 1, 0): day 0 of the next month, i.e. midnight that opens the
\* last day of month m
EndOfMonth(m) == Instant(m, DaysPerMonth, 0)

\* ------------------------------------------------------------ entity store
\* the foreign keys of a transactions row (account_id, to_account_id, category_id)
ForeignKeysHold(row) ==
  /\ row.accountId \in DOMAIN accounts
  /\ row.toAccountId = NULL \/ row.toAccountId \in DOMAIN accounts
  /\ row.categoryId = NULL \/ row.categoryId \in DOMAIN categories

\* the statement writing the amount itself, not relative to the stored value:
\* UPDATE accounts SET current_balance = delta WHERE id = id
SqlSetCurrentBalance(accts, id, delta) ==
  [a \in DOMAIN accts |->
     IF a = id THEN [accts[a] EXCEPT !.currentBalance = delta] ELSE accts[a]]

\* UPDATE accounts SET current_balance = current_balance + delta WHERE id = id
SqlAddCurrentBalance(accts, id, delta) ==
  [a \in DOMAIN accts |->
     IF a = id THEN [accts[a] EXCEPT !.currentBalance = @ + delta] ELSE accts[a]]

\* UPDATE accounts SET opening_balance = opening_balance + delta,
\*                     current_balance = current_balance + delta WHERE id = id
SqlAddOpeningAndCurrent(accts, id, delta) ==
  [a \in DOMAIN accts |->
     IF a = id
       THEN [accts[a] EXCEPT !.openingBalance = @ + delta, !.currentBalance = @ + delta]
       ELSE accts[a]]

\* updateAccountBalances with the expense branch crediting the account
updateAccountBalancesExpenseCredits(accts, tx) ==
  LET amount == tx.amountInInr IN
  IF tx.type = "income" THEN SqlAddCurrentBalance(accts, tx.accountId, amount)
  ELSE IF tx.type = "expense" THEN SqlAddCurrentBalance(accts, tx.accountId, amount)
  ELSE IF tx.type = "transfer" /\ tx.toAccountId # NULL
    THEN SqlAddCurrentBalance(SqlAddCurrentBalance(accts, tx.accountId, -amount),
                              tx.toAccountId, amount)
  ELSE IF tx.type = "opening_balance"
    THEN SqlAddOpeningAndCurrent(accts, tx.accountId, amount)
  ELSE accts

\* DatabaseStorage.updateAccountBalances, all its statements
updateAccountBalances(accts, tx) ==
  LET amount == tx.amountInInr IN
  IF tx.type = "income" THEN SqlAddCurrentBalance(accts, tx.accountId, amount)
  ELSE IF tx.type = "expense" THEN SqlAddCurrentBalance(accts, tx.accountId, -amount)
  ELSE IF tx.type = "transfer" /\ tx.toAccountId # NULL
    THEN SqlAddCurrentBalance(SqlAddCurrentBalance(accts, tx.accountId, -amount),
                              tx.toAccountId, amount)
  ELSE IF tx.type = "opening_balance"
    THEN SqlAddOpeningAndCurrent(accts, tx.accountId, amount)
  ELSE accts

\* createTransaction applying the balances for every status but draft
AppliesOnCreateUnlessDraft(newStatus) == newStatus # "draft"

\* createTransaction: "Update account balances if approved"
AppliesOnCreate(newStatus) == newStatus = "approved"

\* updateTransaction running the balance maintenance on every update
AppliesOnUpdateAlways(oldStatus, updatedStatus) == TRUE

\* updateTransaction without the test of the old status
AppliesOnUpdateWhateverOld(oldStatus, updatedStatus) == updatedStatus = "approved"

\* updateTransaction: "Handle balance updates if status changed to approved"
AppliesOnUpdate(oldStatus, updatedStatus) ==
  oldStatus # "approved" /\ updatedStatus = "approved"

\* ------------------------------------------------------------------- Init
\* no dashboard figures: the answer of every other operation
NoStats ==
  [month |-> 0, currentMonthProfitLoss |-> 0, totalAvailableFunds |-> 0,
   odLimitUsed |-> 0, odLimitRemaining |-> 0, topExpenses |-> {},
   revenueByService |-> {}]

\* the last request and its answer: the operation, the session's user id, the
\* status value the request body carried (transaction creation only), the
\* status the handler read from the stored row before it wrote (approval and
\* transaction deletion only), the HTTP code, the id of the row concerned, the
\* dashboard figures (dashboard only), and the month asked for with the ids of
\* the rows returned (transaction list only)
Response(op, sid, code, id) ==
  [op |-> op, sid |-> sid, bodyStatus |-> "", oldStatus |-> "", code |-> code,
   id |-> id, stats |-> NoStats, month |-> NULL, rows |-> {}]

\* the e-mail addresses of the users: the administrator of the seed, and one
\* user of each other role
SeedEmails ==
  <<"admin@finops.com", "hr@finops.com", "manager@finops.com", "entry@finops.com">>

\* one user of each role; the seven categories of the seed, two of them system
\* categories.  A password is the clear text its stored hash was made of.
SeedUsers ==
  [u \in 1..4 |->
     [email |-> SeedEmails[u], password |-> "admin123",
      role |-> CASE u = 1 -> "admin" [] u = 2 -> "hr" [] u = 3 -> "manager"
                 [] OTHER -> "data_entry",
      isActive |-> TRUE]]

SeedCategoryNames ==
  <<"Sales Revenue", "Consulting Fees", "Office Rent", "Salaries",
    "Software Subscriptions", "Office Supplies", "Travel">>

SeedCategories ==
  [c \in DOMAIN SeedCategoryNames |->
     [name |-> SeedCategoryNames[c], isEnabled |-> TRUE,
      isSystem |-> SeedCategoryNames[c] \in {"Sales Revenue", "Consulting Fees"}]]

\* the two approve requests that may be in progress at the same time
Requests == {"r1", "r2"}

\* a request slot: where the handler stands (pc), the session's user, the
\* transaction id, and the handler's locals oldTransaction.status and
\* updatedTransaction
NoRow ==
  [type |-> "none", originalAmount |-> 0, exchangeRateToInr |-> 0,
   amountInInr |-> 0, accountId |-> NULL, toAccountId |-> NULL,
   categoryId |-> NULL, status |-> "none", createdBy |-> NoSession,
   approvedBy |-> NULL, date |-> 0]

IdleProc ==
  [pc |-> "idle", sid |-> NoSession, id |-> NULL, oldStatus |-> "none",
   updatedTransaction |-> NoRow]

Init ==
  /\ appUsers = SeedUsers
  /\ nextUserId = Len(SeedUsers) + 1
  /\ categories = SeedCategories
  /\ nextCategoryId = Len(SeedCategoryNames) + 1
  /\ clients = <<>>
  /\ invoices = <<>>
  /\ invoiceItems = <<>>
  /\ accounts = <<>>
  /\ nextAccountId = 1
  /\ transactions = <<>>
  /\ nextTxId = 1
  /\ balanceRuns = <<>>
  /\ procs = [r \in Requests |-> IdleProc]
  /\ resp = Response("none", NoSession, 0, NULL)


\* --------------------------------------------------------------- accounts
\* POST /api/accounts.  The body is parsed with insertAccountSchema, which omits
\* id and currentBalance: the row is inserted with current_balance at its
\* column default "0".  body: [type, openingBalance, isActive]
InsertedAccount(body) ==
  [type |-> body.type, openingBalance |-> body.openingBalance,
   currentBalance |-> 0, isActive |-> body.isActive]

PostAccount(sid, body) ==
  /\ IF sid = NoSession
       THEN /\ resp' = Response("createAccount", sid, 401, NULL)
            /\ UNCHANGED <<accounts, nextAccountId>>
       ELSE /\ accounts' = accounts @@ (nextAccountId :> InsertedAccount(body))
            /\ nextAccountId' = nextAccountId + 1
            /\ resp' = Response("createAccount", sid, 201, nextAccountId)
  /\ UNCHANGED <<settings, invoicing, transactions, nextTxId, balanceRuns, procs>>

\* ------------------------------------------------------------------ users
\* POST /api/admin/users/:id/reset-password
ResetPassword(sid, id, newPassword) ==
  /\ IF isAdmin(sid) # 0
       THEN /\ resp' = Response("resetPassword", sid, isAdmin(sid), id)
            /\ UNCHANGED appUsers
     ELSE IF id \notin DOMAIN appUsers
       THEN /\ resp' = Response("resetPassword", sid, 404, id)
            /\ UNCHANGED appUsers
     ELSE /\ appUsers' = [appUsers EXCEPT ![id].password = newPassword]
          /\ resp' = Response("resetPassword", sid, 200, id)
  /\ UNCHANGED <<nextUserId, categories, nextCategoryId, invoicing, accounts,
                 nextAccountId, transactions, nextTxId, balanceRuns, procs>>

\* GET /api/admin/users
ListUsers(sid) ==
  /\ resp' = Response("listUsers", sid, IF isAdmin(sid) # 0 THEN isAdmin(sid) ELSE 200, NULL)
  /\ UNCHANGED <<settings, invoicing, accounts, nextAccountId, transactions, nextTxId,
                 balanceRuns, procs>>

\* POST /api/admin/users.  body: [email, password, role]
PostUser(sid, body) ==
  /\ IF isAdmin(sid) # 0
       THEN /\ resp' = Response("createUser", sid, isAdmin(sid), NULL)
            /\ UNCHANGED <<appUsers, nextUserId>>
     ELSE IF \E u \in DOMAIN appUsers : appUsers[u].email = body.email
       THEN /\ resp' = Response("createUser", sid, 400, NULL)
            /\ UNCHANGED <<appUsers, nextUserId>>
     ELSE /\ appUsers' = appUsers @@
               (nextUserId :> [email |-> body.email, password |-> body.password,
                               role |-> body.role, isActive |-> TRUE])
          /\ nextUserId' = nextUserId + 1
          /\ resp' = Response("createUser", sid, 201, nextUserId)
  /\ UNCHANGED <<categories, nextCategoryId, invoicing, accounts, nextAccountId,
                 transactions, nextTxId, balanceRuns, procs>>

\* PATCH /api/admin/users/:id/role: an UPDATE that matches no row returns none,
\* and the answer is 200 all the same
PatchUserRole(sid, id, role) ==
  /\ IF isAdmin(sid) # 0
       THEN /\ resp' = Response("updateRole", sid, isAdmin(sid), id)
            /\ UNCHANGED appUsers
       ELSE /\ appUsers' = [u \in DOMAIN appUsers |->
                              IF u = id THEN [appUsers[u] EXCEPT !.role = role]
                              ELSE appUsers[u]]
            /\ resp' = Response("updateRole", sid, 200, id)
  /\ UNCHANGED <<nextUserId, categories, nextCategoryId, invoicing, accounts,
                 nextAccountId, transactions, nextTxId, balanceRuns, procs>>

\* DELETE /api/admin/users/:id
DeleteUser(sid, id) ==
  /\ IF isAdmin(sid) # 0
       THEN /\ resp' = Response("deleteUser", sid, isAdmin(sid), id)
            /\ UNCHANGED appUsers
       ELSE /\ appUsers' = [u \in DOMAIN appUsers \ {id} |-> appUsers[u]]
            /\ resp' = Response("deleteUser", sid, 204, id)
  /\ UNCHANGED <<nextUserId, categories, nextCategoryId, invoicing, accounts,
                 nextAccountId, transactions, nextTxId, balanceRuns, procs>>

\* ------------------------------------------------------------- categories
\* POST /api/categories.  body: [name, isEnabled, isSystem]
PostCategory(sid, body) ==
  /\ IF isAdmin(sid) # 0
       THEN /\ resp' = Response("createCategory", sid, isAdmin(sid), NULL)
            /\ UNCHANGED <<categories, nextCategoryId>>
       ELSE /\ categories' = categories @@ (nextCategoryId :> body)
            /\ nextCategoryId' = nextCategoryId + 1
            /\ resp' = Response("createCategory", sid, 201, nextCategoryId)
  /\ UNCHANGED <<appUsers, nextUserId, invoicing, accounts, nextAccountId,
                 transactions, nextTxId, balanceRuns, procs>>

\* db.update(categories).set(category): the columns the input names are
\* written, the others kept
SetColumns(row, input) ==
  [f \in DOMAIN row |-> IF f \in DOMAIN input THEN input[f] ELSE row[f]]

\* PUT /api/categories/:id, behind isAuthenticated alone.  input: some of name,
\* isEnabled, isSystem (insertCategorySchema.partial()); set() of no column
\* throws; an UPDATE that matches no row is answered 200 with no body
PutCategory(sid, id, input) ==
  /\ IF isAuthenticated(sid) # 0
       THEN /\ resp' = Response("updateCategory", sid, isAuthenticated(sid), id)
            /\ UNCHANGED categories
     ELSE IF DOMAIN input = {}
       THEN /\ resp' = Response("updateCategory", sid, 500, id)
            /\ UNCHANGED categories
     ELSE /\ categories' = [c \in DOMAIN categories |->
                               IF c = id THEN SetColumns(categories[c], input)
                               ELSE categories[c]]
          /\ resp' = Response("updateCategory", sid, 200, id)
  /\ UNCHANGED <<appUsers, nextUserId, nextCategoryId, invoicing, accounts,
                 nextAccountId, transactions, nextTxId, balanceRuns, procs>>

\* DELETE /api/categories/:id with DatabaseStorage.deleteCategory, behind
\* isAuthenticated alone: a row some transaction refers to cannot be deleted
\* (transactions.category_id references categories.id)
DeleteCategory(sid, id) ==
  /\ IF isAuthenticated(sid) # 0
       THEN /\ resp' = Response("deleteCategory", sid, isAuthenticated(sid), id)
            /\ UNCHANGED categories
     ELSE IF \E t \in DOMAIN transactions : transactions[t].categoryId = id
       THEN /\ resp' = Response("deleteCategory", sid, 500, id)
            /\ UNCHANGED categories
     ELSE /\ categories' = [c \in DOMAIN categories \ {id} |-> categories[c]]
          /\ resp' = Response("deleteCategory", sid, 204, id)
  /\ UNCHANGED <<appUsers, nextUserId, nextCategoryId, invoicing, accounts,
                 nextAccountId, transactions, nextTxId, balanceRuns, procs>>

\* ----------------------------------------------------------- transactions
\* (n / 100).toFixed(2) for an amount of n hundredths of a paisa: the nearest
\* paisa, a half rounding away from zero
ToFixed2(n) == IF n >= 0 THEN (n + 50) \div 100 ELSE -((-n + 50) \div 100)

\* exchangeRateToInr ? parseFloat(exchangeRateToInr) : 1, in hundredths
RateOf(body) == IF body.exchangeRateToInr = 0 THEN 100 ELSE body.exchangeRateToInr

\* parseFloat(originalAmount) * rate, then toFixed(2)
AmountInInrOf(body) == ToFixed2(body.originalAmount * RateOf(body))

\* the status of the body taken as it is for every role
StatusOfWithoutDowngrade(role, body) ==
  IF body.status = "" THEN "draft" ELSE body.status

\* let status = req.body.status || 'draft'; data entry users are forced to draft
StatusOf(role, body) ==
  LET status == IF body.status = "" THEN "draft" ELSE body.status IN
  IF role = "data_entry" /\ status # "draft" THEN "draft" ELSE status

\* the row parsed from the body as it came: amountInInr and createdBy are the
\* body's own where the body carries them
InputRowFromBody(sid, body) ==
  [type |-> body.type, originalAmount |-> body.originalAmount,
   exchangeRateToInr |-> RateOf(body),
   amountInInr |-> IF "amountInInr" \in DOMAIN body THEN body.amountInInr
                   ELSE AmountInInrOf(body),
   accountId |-> body.accountId, toAccountId |-> body.toAccountId,
   categoryId |-> body.categoryId, status |-> StatusOf(RoleOf(sid), body),
   createdBy |-> IF "createdBy" \in DOMAIN body THEN body.createdBy ELSE sid,
   approvedBy |-> NULL, date |-> body.date]

\* the row the create handler hands to storage.createTransaction: the parse of
\* {...req.body, status, originalAmount, originalCurrency, exchangeRateToInr:
\* rate.toString(), amountInInr: amountInInr.toFixed(2), createdBy:
\* String(req.session.userId), date}, where the keys written after the spread
\* replace whatever the body carried under the same names
InputRow(sid, body) ==
  [type |-> body.type, originalAmount |-> body.originalAmount,
   exchangeRateToInr |-> RateOf(body), amountInInr |-> AmountInInrOf(body),
   accountId |-> body.accountId, toAccountId |-> body.toAccountId,
   categoryId |-> body.categoryId, status |-> StatusOf(RoleOf(sid), body),
   createdBy |-> sid, approvedBy |-> NULL, date |-> body.date]

\* POST /api/transactions with DatabaseStorage.createTransaction
PostTransaction(sid, body) ==
  /\ IF sid = NoSession
       THEN /\ resp' = Response("createTransaction", sid, 401, NULL)
            /\ UNCHANGED <<accounts, transactions, nextTxId, balanceRuns>>
     ELSE IF ~HasCurrentUser(sid) \/ ~canCreateTransactions(RoleOf(sid))
       THEN /\ resp' = Response("createTransaction", sid, 403, NULL)
            /\ UNCHANGED <<accounts, transactions, nextTxId, balanceRuns>>
     ELSE IF ~ForeignKeysHold(InputRow(sid, body))
       THEN /\ resp' = Response("createTransaction", sid, 500, NULL)
            /\ UNCHANGED <<accounts, transactions, nextTxId, balanceRuns>>
     ELSE LET newTransaction == InputRow(sid, body)
              applies == AppliesOnCreate(newTransaction.status)
          IN /\ transactions' = transactions @@ (nextTxId :> newTransaction)
             /\ nextTxId' = nextTxId + 1
             /\ accounts' = IF applies THEN updateAccountBalances(accounts, newTransaction)
                            ELSE accounts
             /\ balanceRuns' = balanceRuns @@ (nextTxId :> IF applies THEN 1 ELSE 0)
             /\ resp' = [Response("createTransaction", sid, 201, nextTxId)
                          EXCEPT !.bodyStatus = body.status]
  /\ UNCHANGED <<settings, invoicing, nextAccountId, procs>>

\* storage.approveTransaction(id, userId): updateTransaction(id, {status:
\* 'approved', approvedBy, approvedAt}), the row after the UPDATE ... RETURNING
ApprovedRow(row, sid) == [row EXCEPT !.status = "approved", !.approvedBy = sid]

\* POST /api/transactions/:id/approve with DatabaseStorage.updateTransaction,
\* as one request served alone
ApproveTransaction(sid, id) ==
  /\ IF sid = NoSession
       THEN /\ resp' = Response("approve", sid, 401, id)
            /\ UNCHANGED <<accounts, transactions, balanceRuns>>
     ELSE IF ~HasCurrentUser(sid) \/ ~canApproveTransactions(RoleOf(sid))
       THEN /\ resp' = Response("approve", sid, 403, id)
            /\ UNCHANGED <<accounts, transactions, balanceRuns>>
     ELSE IF id \notin DOMAIN transactions
       \* oldTransaction is undefined: reading oldTransaction.status throws
       THEN /\ resp' = Response("approve", sid, 500, id)
            /\ UNCHANGED <<accounts, transactions, balanceRuns>>
     ELSE LET oldTransaction == transactions[id]
              updatedTransaction == ApprovedRow(oldTransaction, sid)
              applies == AppliesOnUpdate(oldTransaction.status, updatedTransaction.status)
          IN /\ transactions' = [transactions EXCEPT ![id] = updatedTransaction]
             /\ accounts' = IF applies
                              THEN updateAccountBalances(accounts, updatedTransaction)
                              ELSE accounts
             /\ balanceRuns' = [balanceRuns EXCEPT ![id] = IF applies THEN @ + 1 ELSE @]
             /\ resp' = [Response("approve", sid, 200, id)
                          EXCEPT !.oldStatus = oldTransaction.status]
  /\ UNCHANGED <<settings, invoicing, nextAccountId, nextTxId, procs>>

\* the delete handler letting every user delete every transaction
MayDeleteAny(user, transaction) == TRUE

\* the delete handler's test: "Admin can delete any transaction, others can
\* only delete their own draft transactions"
MayDelete(user, transaction) ==
  \/ appUsers[user].role = "admin"
  \/ transaction.createdBy = user /\ transaction.status = "draft"

\* a deletion that takes an approved transaction's amount back out of the
\* accounts
deleteTransactionReversing(accts, tx) ==
  IF tx.status = "approved"
    THEN updateAccountBalances(accts, [tx EXCEPT !.amountInInr = -tx.amountInInr])
    ELSE accts

\* DatabaseStorage.deleteTransaction, the accounts after it: the statement is
\* db.delete(transactions).where(eq(transactions.id, id)) and nothing else
deleteTransaction(accts, tx) == accts

\* DELETE /api/transactions/:id with DatabaseStorage.deleteTransaction
DeleteTransaction(sid, id) ==
  /\ IF isAuthenticated(sid) # 0 \/ ~HasCurrentUser(sid)
       THEN /\ resp' = Response("deleteTransaction", sid, 401, id)
            /\ UNCHANGED <<transactions, accounts>>
     ELSE IF id \notin DOMAIN transactions
       THEN /\ resp' = Response("deleteTransaction", sid, 404, id)
            /\ UNCHANGED <<transactions, accounts>>
     ELSE IF ~MayDelete(sid, transactions[id])
       THEN /\ resp' = [Response("deleteTransaction", sid, 403, id)
                         EXCEPT !.oldStatus = transactions[id].status]
            /\ UNCHANGED <<transactions, accounts>>
     ELSE /\ transactions' = [t \in DOMAIN transactions \ {id} |-> transactions[t]]
          /\ accounts' = deleteTransaction(accounts, transactions[id])
          /\ resp' = [Response("deleteTransaction", sid, 204, id)
                       EXCEPT !.oldStatus = transactions[id].status]
  /\ UNCHANGED <<settings, invoicing, nextAccountId, nextTxId, balanceRuns, procs>>

\* ------------------------------------------------- the ledger, specification
\* Requests served one at a time by the administrator: accounts are opened,
\* transactions of every type and status are entered, and approved.
OpeningBalances == {0, 500}
Amounts == {300}
LedgerDate == Instant(1, 1, 0)

AccountBodies ==
  [type : {"current"}, openingBalance : OpeningBalances, isActive : {TRUE}]

\* a destination is entered for transfers (or left out), a category for none
LedgerBodies ==
  {b \in [type : TransactionTypes, originalAmount : Amounts, exchangeRateToInr : {0},
          accountId : AccountIds, toAccountId : AccountIds \cup {NULL},
          categoryId : {NULL}, status : TransactionStatuses, date : {LedgerDate}] :
     b.type # "transfer" => b.toAccountId = NULL}

LedgerAccount ==
  /\ nextAccountId <= MaxAccounts
  /\ \E body \in AccountBodies : PostAccount(1, body)

LedgerCreate ==
  /\ nextTxId <= MaxTransactions
  /\ \E body \in LedgerBodies : PostTransaction(1, body)

LedgerApprove == \E id \in DOMAIN transactions : ApproveTransaction(1, id)

Next == LedgerAccount \/ LedgerCreate \/ LedgerApprove

Spec == Init /\ [][Next]_vars


\* ------------------------------------------------------ claims on the ledger
\* t has status approved after the step and had not before it (it is new, or
\* its stored status was another one)
BecomesApproved(t) ==
  /\ t \in DOMAIN transactions'
  /\ transactions'[t].status = "approved"
  /\ t \notin DOMAIN transactions \/ transactions[t].status # "approved"

\* what an approved transaction contributes to account a: income +A at the
\* source, expense -A at the source, transfer -A at the source and +A at the
\* destination
SignedAmount(tx, a) ==
  (IF tx.type = "income" /\ tx.accountId = a THEN tx.amountInInr ELSE 0)
  + (IF tx.type = "expense" /\ tx.accountId = a THEN -tx.amountInInr ELSE 0)
  + (IF tx.type = "transfer" /\ tx.accountId = a THEN -tx.amountInInr ELSE 0)
  + (IF tx.type = "transfer" /\ tx.toAccountId = a THEN tx.amountInInr ELSE 0)

ApprovedIds == {t \in DOMAIN transactions : transactions[t].status = "approved"}

SignedSum(a) ==
  SumOver(ApprovedIds, [t \in ApprovedIds |-> SignedAmount(transactions[t], a)])

\* C1: in every state reached by account creations, transaction creations and
\* approvals, each account's current balance equals its opening balance plus the
\* signed sum of the approved transactions touching it.
C1_BalanceIsOpeningPlusApproved ==
  \A a \in DOMAIN accounts :
    accounts[a].currentBalance = accounts[a].openingBalance + SignedSum(a)

\* C2: when an income (expense) transaction becomes approved, its source
\* account's current balance grows (shrinks) by exactly amountInInr and nothing
\* else in the accounts table changes.
C2_IncomeExpenseDelta ==
  [][\A t \in DOMAIN transactions' :
       BecomesApproved(t) /\ transactions'[t].type \in {"income", "expense"} =>
         LET tx == transactions'[t]
             delta == IF tx.type = "income" THEN tx.amountInInr ELSE -tx.amountInInr
         IN accounts' = [accounts EXCEPT ![tx.accountId].currentBalance = @ + delta]]_vars

\* an expense was approved by an approve request and the account went from its
\* initial 0 to minus the amount
C2_Witness ==
  /\ resp.op = "approve" /\ resp.code = 200
  /\ transactions[resp.id].type = "expense"
  /\ transactions[resp.id].amountInInr > 0
  /\ accounts[transactions[resp.id].accountId].currentBalance
       = -transactions[resp.id].amountInInr

\* C3: when a transfer becomes approved, the source balance falls by amountInInr
\* and the destination balance rises by the same amount, the sum of the two
\* staying as it was.
C3_TransferMovesAmount ==
  [][\A t \in DOMAIN transactions' :
       BecomesApproved(t) /\ transactions'[t].type = "transfer" =>
         LET tx == transactions'[t]
             src == tx.accountId
             dst == tx.toAccountId
         IN /\ dst \in DOMAIN accounts
            /\ accounts'[src].currentBalance = accounts[src].currentBalance - tx.amountInInr
            /\ accounts'[dst].currentBalance = accounts[dst].currentBalance + tx.amountInInr
            /\ accounts'[src].currentBalance + accounts'[dst].currentBalance
                 = accounts[src].currentBalance + accounts[dst].currentBalance]_vars

\* C23: every stored transaction has a destination account (toAccountId)
\* exactly when its type is transfer.
C23_DestinationIffTransfer ==
  \A t \in DOMAIN transactions :
    (transactions[t].toAccountId # NULL) <=> (transactions[t].type = "transfer")

C8_NonApprovedCreateKeepsBalances ==
  [][\A t \in DOMAIN transactions' \ DOMAIN transactions :
       transactions'[t].status \in {"draft", "submitted", "rejected"} =>
         accounts' = accounts]_vars

\* a submitted income of a positive amount was created
C8_Witness ==
  /\ resp.op = "createTransaction" /\ resp.code = 201
  /\ transactions[resp.id].status = "submitted"
  /\ transactions[resp.id].type = "income"
  /\ transactions[resp.id].amountInInr > 0

\* C19: the status changes along the lifecycle only: a stored transaction
\* becomes approved only from submitted, one that is approved or rejected
\* keeps its status, and an approve request on a draft or a rejected
\* transaction changes neither its status nor the accounts.
C19_LifecycleOnly ==
  [][\A t \in DOMAIN transactions \cap DOMAIN transactions' :
       /\ transactions[t].status # "approved" /\ transactions'[t].status = "approved"
            => transactions[t].status = "submitted"
       /\ transactions[t].status \in {"approved", "rejected"}
            => transactions'[t].status = transactions[t].status
       /\ resp'.op = "approve" /\ resp'.id = t
            /\ transactions[t].status \in {"draft", "rejected"}
            => transactions'[t].status = transactions[t].status /\ accounts' = accounts]_vars

\* C20 as stated: an approve request on a transaction whose status is
\* approved already runs the balance maintenance on it once more (the balance
\* has then moved by twice amountInInr).
C20_ReapproveAppliesAgain ==
  [][resp'.op = "approve" /\ resp'.code = 200 /\ resp'.oldStatus = "approved" =>
       /\ accounts' = updateAccountBalances(accounts, transactions'[resp'.id])
       /\ balanceRuns'[resp'.id] = balanceRuns[resp'.id] + 1]_vars

\* C20 amended: an approve request on a transaction whose status is approved
\* already is answered 200 and leaves the accounts as they were: the balance
\* maintenance does not run again (the balance has moved by amountInInr once).
C20_ReapproveKeepsBalances ==
  [][resp'.op = "approve" /\ resp'.code = 200 /\ resp'.oldStatus = "approved" =>
       /\ accounts' = accounts
       /\ balanceRuns' = balanceRuns
       /\ transactions'[resp'.id].status = "approved"]_vars

\* an approve request was answered 200 on an income that was approved already,
\* and the account holds the amount once
C20_Witness ==
  /\ resp.op = "approve" /\ resp.code = 200 /\ resp.oldStatus = "approved"
  /\ transactions[resp.id].type = "income"
  /\ transactions[resp.id].amountInInr > 0
  /\ balanceRuns[resp.id] = 1
  /\ accounts[transactions[resp.id].accountId].currentBalance
       = transactions[resp.id].amountInInr


\* ------------------------------------------------ the role gate, specification
\* Requests of every session (one user per role, and no session at all): one
\* kind of transaction, every status value a body can carry ("" is no value).
Sessions == DOMAIN SeedUsers \cup {NoSession}
BodyStatuses == TransactionStatuses \cup {""}

GateAccountBodies == [type : {"current"}, openingBalance : {0}, isActive : {TRUE}]

GateBodies ==
  [type : {"income"}, originalAmount : Amounts, exchangeRateToInr : {0},
   accountId : AccountIds, toAccountId : {NULL}, categoryId : {NULL},
   status : BodyStatuses, date : {LedgerDate}]

GateAccount ==
  /\ nextAccountId <= MaxAccounts
  /\ \E body \in GateAccountBodies : PostAccount(1, body)

GateCreate ==
  /\ nextTxId <= MaxTransactions
  /\ \E sid \in Sessions, body \in GateBodies : PostTransaction(sid, body)

GateApprove ==
  \E sid \in Sessions, id \in DOMAIN transactions : ApproveTransaction(sid, id)

NextGate == GateAccount \/ GateCreate \/ GateApprove

SpecGate == Init /\ [][NextGate]_vars

\* C4: a transaction created by a data_entry user is persisted with status
\* draft whatever status the body carried, and a row created by a data_entry
\* user has no other status as long as no approval has touched it.
C4_DataEntryPersistsDraft ==
  /\ resp.op = "createTransaction" /\ resp.code = 201 /\ RoleOf(resp.sid) = "data_entry"
       => transactions[resp.id].status = "draft"
  /\ \A t \in DOMAIN transactions :
       RoleOf(transactions[t].createdBy) = "data_entry" /\ transactions[t].approvedBy = NULL
         => transactions[t].status = "draft"

\* a data_entry request carrying status approved was answered 201
C4_Witness ==
  /\ resp.op = "createTransaction" /\ resp.code = 201
  /\ RoleOf(resp.sid) = "data_entry"
  /\ resp.bodyStatus = "approved"
  /\ transactions[resp.id].createdBy = resp.sid

\* C5: no request of a user whose role is not admin brings a transaction into
\* status approved or rejected, and an approve request of such a user is
\* answered 403 with the transactions and the accounts unchanged.
C5_NonAdminNeverApproves ==
  [][HasCurrentUser(resp'.sid) /\ RoleOf(resp'.sid) # "admin" =>
       /\ \A t \in DOMAIN transactions' :
            transactions'[t].status \in {"approved", "rejected"} =>
              t \in DOMAIN transactions /\ transactions[t].status = transactions'[t].status
       /\ resp'.op = "approve" =>
            resp'.code = 403 /\ transactions' = transactions /\ accounts' = accounts]_vars

\* C18: every transaction the create operation stores has status draft or
\* submitted, whatever the creator's role and the status value of the body.
C18_CreatedDraftOrSubmitted ==
  [][\A t \in DOMAIN transactions' \ DOMAIN transactions :
       transactions'[t].status \in {"draft", "submitted"}]_vars


\* ------------------------------------------------- the desk, specification
\* The administrator opens an account and deletes the hr or the data_entry
\* user; every session, those of deleted users and none at all included,
\* enters transactions with every status value and deletes transactions by id;
\* the administrator approves.
MaxDesk == 1

DeskLeavers == {2, 4}

DeskBodies ==
  [type : {"income"}, originalAmount : Amounts, exchangeRateToInr : {0},
   accountId : {1}, toAccountId : {NULL}, categoryId : {NULL},
   status : BodyStatuses, date : {LedgerDate}]

DeskAccount ==
  /\ nextAccountId = 1
  /\ \E body \in GateAccountBodies : PostAccount(1, body)

DeskCreate ==
  /\ nextTxId <= MaxDesk
  /\ \E sid \in Sessions, body \in DeskBodies : PostTransaction(sid, body)

DeskApprove == \E id \in 1..MaxDesk : ApproveTransaction(1, id)

DeskDelete == \E sid \in Sessions, id \in 1..MaxDesk : DeleteTransaction(sid, id)

DeskUserDelete == \E id \in DeskLeavers : DeleteUser(1, id)

NextDesk == DeskAccount \/ DeskCreate \/ DeskApprove \/ DeskDelete \/ DeskUserDelete

SpecDesk == Init /\ [][NextDesk]_vars

\* C12: a create-transaction request stores a transaction only when the
\* session's user exists with role admin, hr or data_entry; the request of a
\* manager, or of a session whose user is no longer stored, is answered 403
\* and leaves the transactions and the accounts as they were.
C12_CreateOnlyByCreators ==
  [][resp'.op = "createTransaction" =>
       /\ transactions' # transactions =>
            HasCurrentUser(resp'.sid) /\ RoleOf(resp'.sid) \in {"admin", "hr", "data_entry"}
       /\ resp'.sid # NoSession
            /\ (~HasCurrentUser(resp'.sid) \/ RoleOf(resp'.sid) = "manager")
          => resp'.code = 403 /\ transactions' = transactions /\ accounts' = accounts]_vars

\* the session of a deleted user was answered 403 on a create request for an
\* account that is stored, and no transaction is
C12_Witness ==
  /\ resp.op = "createTransaction" /\ resp.code = 403
  /\ resp.sid # NoSession /\ resp.sid \notin DOMAIN appUsers
  /\ DOMAIN accounts # {}
  /\ DOMAIN transactions = {}

\* C13: a delete-transaction request removes the transaction only if the
\* session's user is admin, or created the transaction and its status is
\* draft; the request of any other stored user on a stored transaction is
\* answered 403, and every transaction not removed stays as it was.
C13_DeleteOnlyAdminOrOwnDraft ==
  [][resp'.op = "deleteTransaction" =>
       /\ \A t \in DOMAIN transactions \ DOMAIN transactions' :
            /\ t = resp'.id /\ HasCurrentUser(resp'.sid)
            /\ \/ RoleOf(resp'.sid) = "admin"
               \/ transactions[t].createdBy = resp'.sid /\ transactions[t].status = "draft"
       /\ \A t \in DOMAIN transactions \cap DOMAIN transactions' :
            transactions'[t] = transactions[t]
       /\ DOMAIN transactions' \subseteq DOMAIN transactions
       /\ /\ HasCurrentUser(resp'.sid) /\ RoleOf(resp'.sid) # "admin"
          /\ resp'.id \in DOMAIN transactions
          /\ \/ transactions[resp'.id].createdBy # resp'.sid
             \/ transactions[resp'.id].status # "draft"
          => resp'.code = 403 /\ transactions' = transactions]_vars

\* a user who is not admin has deleted a draft of their own
C13_Witness ==
  /\ resp.op = "deleteTransaction" /\ resp.code = 204
  /\ HasCurrentUser(resp.sid) /\ RoleOf(resp.sid) # "admin"
  /\ resp.oldStatus = "draft"
  /\ resp.id \notin DOMAIN transactions
  /\ balanceRuns[resp.id] = 0

\* C21: deleting a transaction, an approved one included, leaves the opening
\* and the current balance of every account as they were: the amount an
\* approved transaction moved stays in the balances after its row is gone.
C21_DeleteKeepsBalances ==
  [][resp'.op = "deleteTransaction" => accounts' = accounts]_vars

\* the administrator has deleted an approved income whose amount had been
\* added to the account, and the account still holds it
C21_Witness ==
  /\ resp.op = "deleteTransaction" /\ resp.code = 204
  /\ resp.oldStatus = "approved"
  /\ resp.id \notin DOMAIN transactions
  /\ balanceRuns[resp.id] = 1
  /\ \E a \in DOMAIN accounts, A \in Amounts :
       accounts[a].currentBalance = accounts[a].openingBalance + A

\* C26: an operation naming a transaction id that is not stored is answered
\* 404 and changes nothing, for the delete and for the approve operation alike
\* (the session being one the operation admits).
C26_MissingIdNotFound ==
  [][/\ resp'.op \in {"deleteTransaction", "approve"}
     /\ resp'.id \notin DOMAIN transactions
     /\ HasCurrentUser(resp'.sid) /\ RoleOf(resp'.sid) = "admin"
     => /\ resp'.code = 404
        /\ transactions' = transactions /\ accounts' = accounts]_vars


\* --------------------------------------------------------------- invoicing
\* the constraints of an invoices row: client_id references clients.id,
\* invoice_number is unique
InvoiceConstraintsHold(invoice) ==
  /\ invoice.clientId \in DOMAIN clients
  /\ \A i \in DOMAIN invoices : invoices[i].invoiceNumber # invoice.invoiceNumber

\* the rows of: items.map(item => ({ ...item, invoiceId: newInvoice.id }))
ItemsWithId(items, invoiceId) ==
  [k \in DOMAIN items |->
     [invoiceId |-> invoiceId, description |-> items[k].description,
      amount |-> items[k].amount]]

\* POST /api/invoices with DatabaseStorage.createInvoice.  body: [invoice,
\* items]; the body is not parsed, and every error is answered 400.  The two
\* inserts are not one transaction: when the insert of the items fails (here on
\* description, which is not null) the invoice stays stored.
PostInvoice(sid, body) ==
  /\ IF isAuthenticated(sid) # 0
       THEN /\ resp' = Response("createInvoice", sid, isAuthenticated(sid), NULL)
            /\ UNCHANGED <<invoices, invoiceItems>>
     ELSE IF ~HasCurrentUser(sid) \/ ~canCreateInvoices(RoleOf(sid))
       THEN /\ resp' = Response("createInvoice", sid, 403, NULL)
            /\ UNCHANGED <<invoices, invoiceItems>>
     ELSE IF ~InvoiceConstraintsHold(body.invoice)
       THEN /\ resp' = Response("createInvoice", sid, 400, NULL)
            /\ UNCHANGED <<invoices, invoiceItems>>
     ELSE LET id == Len(invoices) + 1 IN
          /\ invoices' = Append(invoices, body.invoice)
          /\ IF \E k \in DOMAIN body.items : body.items[k].description = ""
               THEN /\ resp' = Response("createInvoice", sid, 400, id)
                    /\ UNCHANGED invoiceItems
               ELSE /\ resp' = Response("createInvoice", sid, 201, id)
                    /\ invoiceItems' = invoiceItems \o ItemsWithId(body.items, id)
  /\ UNCHANGED <<settings, clients, accounts, nextAccountId, transactions, nextTxId,
                 balanceRuns, procs>>

\* POST /api/clients.  body: [name, isActive]
PostClient(sid, body) ==
  /\ IF isAuthenticated(sid) # 0
       THEN /\ resp' = Response("createClient", sid, isAuthenticated(sid), NULL)
            /\ UNCHANGED clients
     ELSE IF ~HasCurrentUser(sid) \/ RoleOf(sid) \notin {"admin", "manager"}
       THEN /\ resp' = Response("createClient", sid, 403, NULL)
            /\ UNCHANGED clients
     ELSE /\ clients' = Append(clients, body)
          /\ resp' = Response("createClient", sid, 201, Len(clients) + 1)
  /\ UNCHANGED <<settings, invoices, invoiceItems, accounts, nextAccountId,
                 transactions, nextTxId, balanceRuns, procs>>

\* --------------------------------------------- the invoicing, specification
\* Every session (one user per role, and none) creates clients and invoices:
\* an invoice of a client that is stored or of one that is not, under a number
\* that is taken or not, with no item, one item, or one item lacking its
\* description.
MaxClients == 2
MaxInvoices == 2

ClientBodies == [name : {"Acme Corp", "Global Tech Solutions"}, isActive : {TRUE}]

InvoiceItems ==
  {<<>>, <<[description |-> "UI/UX Design Services", amount |-> 300]>>,
   <<[description |-> "", amount |-> 300]>>}

InvoiceBodies ==
  [invoice : [invoiceNumber : {"INV-2026-001", "INV-2026-002"},
              clientId : 1..(MaxClients + 1), totalAmount : {300},
              status : {"draft"}],
   items : InvoiceItems]

InvoicingClient ==
  /\ Len(clients) < MaxClients
  /\ \E sid \in Sessions, body \in ClientBodies : PostClient(sid, body)

InvoicingInvoice ==
  /\ Len(invoices) < MaxInvoices
  /\ \E sid \in Sessions, body \in InvoiceBodies : PostInvoice(sid, body)

NextInvoicing == InvoicingClient \/ InvoicingInvoice

SpecInvoicing == Init /\ [][NextInvoicing]_vars

\* C15: a create-invoice or create-client request stores a row only when the
\* session's user exists with role admin or manager; the request of an hr or
\* data_entry user is answered 403 and stores no invoice, invoice item or
\* client.
C15_InvoicingByAdminOrManager ==
  [][resp'.op \in {"createInvoice", "createClient"} =>
       /\ invoicing' # invoicing =>
            HasCurrentUser(resp'.sid) /\ RoleOf(resp'.sid) \in {"admin", "manager"}
       /\ HasCurrentUser(resp'.sid) /\ RoleOf(resp'.sid) \in {"hr", "data_entry"}
            => resp'.code = 403 /\ invoicing' = invoicing]_vars

\* the manager has created an invoice with its item, for a stored client
C15_Witness ==
  /\ resp.op = "createInvoice" /\ resp.code = 201
  /\ RoleOf(resp.sid) = "manager"
  /\ invoices[resp.id].clientId \in DOMAIN clients
  /\ \E k \in DOMAIN invoiceItems : invoiceItems[k].invoiceId = resp.id


\* ---------------------------------------------- the settings, specification
\* Every session (one user per role, and none) sends the requests of the
\* settings pages: users are listed, created, given another role, deleted and
\* given another password; categories are created, updated and deleted.  The
\* user concerned is the hr user, the categories concerned are the system
\* category "Sales Revenue" and the category "Office Rent".
MaxUsers == 5
MaxCategories == 8

SettingsUsers == {2}
SettingsRoles == {"admin", "manager"}
SettingsPasswords == {"changed"}
SettingsUserBodies ==
  [email : {"hr@finops.com", "new@finops.com"}, password : {"admin123"}, role : {"hr"}]

SettingsCategories == {1, 3}
SettingsCategoryBodies == [name : {"Utilities"}, isEnabled : {TRUE}, isSystem : {FALSE}]
\* the inputs of PUT: {isEnabled: false}, and {} which names no column
SettingsCategoryInputs == {[isEnabled |-> FALSE], <<>>}

SettingsResetPassword ==
  \E sid \in Sessions, id \in SettingsUsers, pw \in SettingsPasswords :
    ResetPassword(sid, id, pw)

SettingsListUsers == \E sid \in Sessions : ListUsers(sid)

SettingsPostUser ==
  /\ nextUserId <= MaxUsers
  /\ \E sid \in Sessions, body \in SettingsUserBodies : PostUser(sid, body)

SettingsPatchUserRole ==
  \E sid \in Sessions, id \in SettingsUsers, role \in SettingsRoles :
    PatchUserRole(sid, id, role)

SettingsDeleteUser == \E sid \in Sessions, id \in SettingsUsers : DeleteUser(sid, id)

SettingsPostCategory ==
  /\ nextCategoryId <= MaxCategories
  /\ \E sid \in Sessions, body \in SettingsCategoryBodies : PostCategory(sid, body)

SettingsPutCategory ==
  \E sid \in Sessions, id \in SettingsCategories, input \in SettingsCategoryInputs :
    PutCategory(sid, id, input)

SettingsDeleteCategory ==
  \E sid \in Sessions, id \in SettingsCategories : DeleteCategory(sid, id)

NextSettings ==
  \/ SettingsResetPassword \/ SettingsListUsers \/ SettingsPostUser
  \/ SettingsPatchUserRole \/ SettingsDeleteUser
  \/ SettingsPostCategory \/ SettingsPutCategory \/ SettingsDeleteCategory

SpecSettings == Init /\ [][NextSettings]_vars

CategoryMutations == {"createCategory", "updateCategory", "deleteCategory"}
UserManagement ==
  {"listUsers", "createUser", "updateRole", "deleteUser", "resetPassword"}

\* C14: a category mutation or a user-management request of a stored user whose
\* role is hr, manager or data_entry is rejected (403) and leaves the
\* categories and the users as they were.
C14_SettingsAdminOnly ==
  [][/\ resp'.op \in CategoryMutations \cup UserManagement
     /\ HasCurrentUser(resp'.sid) /\ RoleOf(resp'.sid) # "admin"
     => resp'.code = 403 /\ categories' = categories /\ appUsers' = appUsers]_vars

\* the roles the permission table gives each mutating operation to
PermittedRoles(op) ==
  CASE op = "createTransaction" -> {"admin", "hr", "data_entry"}
    [] op = "approve" -> {"admin"}
    [] op \in {"createInvoice", "createClient"} -> {"admin", "manager"}
    [] op \in CategoryMutations \cup UserManagement -> {"admin"}
    [] OTHER -> UserRoles

MutatingOperations ==
  {"createAccount", "createTransaction", "approve", "createInvoice", "createClient"}
    \cup CategoryMutations \cup (UserManagement \ {"listUsers"})

\* all the entities
entities == <<appUsers, categories, clients, invoices, invoiceItems, accounts, transactions>>

\* C16: a mutating request without a session is answered 401, one of a stored
\* user whose role the permission table does not give the operation to is
\* answered 403, and in both cases no entity and no balance changes.
C16_RejectedWithoutMutation ==
  [][resp'.op \in MutatingOperations =>
       /\ resp'.sid = NoSession => resp'.code = 401 /\ entities' = entities
       /\ HasCurrentUser(resp'.sid) /\ RoleOf(resp'.sid) \notin PermittedRoles(resp'.op)
            => resp'.code = 403 /\ entities' = entities]_vars

\* C17: no PUT or DELETE of /api/categories/:id deletes or disables a category
\* whose system flag is set: it is still stored, with isEnabled true, after
\* the request.
C17_SystemCategoriesStay ==
  [][resp'.op \in {"updateCategory", "deleteCategory"} =>
       \A c \in DOMAIN categories :
         categories[c].isSystem /\ categories[c].isEnabled =>
           c \in DOMAIN categories' /\ categories'[c].isEnabled]_vars


\* ------------------------------------- approve requests, statement by statement
\* One approve request as the steps the handler awaits: the gate, then in
\* updateTransaction the SELECT of the old row, the UPDATE ... RETURNING, and in
\* updateAccountBalances one step per UPDATE accounts statement.
ApproveGate(r, sid, id) ==
  /\ procs[r].pc = "idle"
  /\ IF sid = NoSession
       THEN /\ resp' = Response("approve", sid, 401, id)
            /\ UNCHANGED procs
     ELSE IF ~HasCurrentUser(sid) \/ ~canApproveTransactions(RoleOf(sid))
       THEN /\ resp' = Response("approve", sid, 403, id)
            /\ UNCHANGED procs
     ELSE /\ procs' = [procs EXCEPT ![r] = [IdleProc EXCEPT !.pc = "select", !.sid = sid,
                                                          !.id = id]]
          /\ UNCHANGED resp
  /\ UNCHANGED <<settings, invoicing, accounts, nextAccountId, transactions, nextTxId,
                 balanceRuns>>

\* const [oldTransaction] = await db.select()...
ApproveSelect(r) ==
  /\ procs[r].pc = "select"
  /\ procs' = [procs EXCEPT ![r].pc = "update",
                            ![r].oldStatus = IF procs[r].id \in DOMAIN transactions
                                               THEN transactions[procs[r].id].status
                                               ELSE "none"]
  /\ UNCHANGED <<settings, invoicing, accounts, nextAccountId, transactions, nextTxId,
                 balanceRuns, resp>>

\* const [updatedTransaction] = await db.update(transactions).set(updates)...,
\* then the test of the two statuses
ApproveUpdate(r) ==
  LET p == procs[r] IN
  /\ p.pc = "update"
  /\ IF p.id \notin DOMAIN transactions \/ p.oldStatus = "none"
       \* a row is undefined: reading its status throws
       THEN /\ procs' = [procs EXCEPT ![r] = IdleProc]
            /\ resp' = Response("approve", p.sid, 500, p.id)
            /\ UNCHANGED transactions
       ELSE LET updatedTransaction == ApprovedRow(transactions[p.id], p.sid) IN
            /\ transactions' = [transactions EXCEPT ![p.id] = updatedTransaction]
            /\ IF AppliesOnUpdate(p.oldStatus, updatedTransaction.status)
                 THEN /\ procs' = [procs EXCEPT ![r].pc = "balance1",
                                                ![r].updatedTransaction = updatedTransaction]
                      /\ UNCHANGED resp
                 ELSE /\ procs' = [procs EXCEPT ![r] = IdleProc]
                      /\ resp' = [Response("approve", p.sid, 200, p.id)
                                   EXCEPT !.oldStatus = p.oldStatus]
  /\ UNCHANGED <<settings, invoicing, accounts, nextAccountId, nextTxId, balanceRuns>>

\* updateAccountBalances writing both rows of a transfer in one step
ApproveBalance1BothRows(r) ==
  LET p == procs[r]
      tx == p.updatedTransaction
  IN
  /\ p.pc = "balance1"
  /\ balanceRuns' = [balanceRuns EXCEPT ![p.id] = @ + 1]
  /\ accounts' = updateAccountBalances(accounts, tx)
  /\ procs' = [procs EXCEPT ![r] = IdleProc]
  /\ resp' = [Response("approve", p.sid, 200, p.id) EXCEPT !.oldStatus = p.oldStatus]
  /\ UNCHANGED <<settings, invoicing, nextAccountId, transactions, nextTxId>>

\* updateAccountBalances: its first (for all but a transfer, only) statement
ApproveBalance1(r) ==
  LET p == procs[r]
      tx == p.updatedTransaction
      amount == tx.amountInInr
  IN
  /\ p.pc = "balance1"
  /\ balanceRuns' = [balanceRuns EXCEPT ![p.id] = @ + 1]
  /\ IF tx.type = "transfer" /\ tx.toAccountId # NULL
       THEN /\ accounts' = SqlAddCurrentBalance(accounts, tx.accountId, -amount)
            /\ procs' = [procs EXCEPT ![r].pc = "balance2"]
            /\ UNCHANGED resp
       ELSE /\ accounts' =
                 IF tx.type = "income" THEN SqlAddCurrentBalance(accounts, tx.accountId, amount)
                 ELSE IF tx.type = "expense"
                   THEN SqlAddCurrentBalance(accounts, tx.accountId, -amount)
                 ELSE IF tx.type = "opening_balance"
                   THEN SqlAddOpeningAndCurrent(accounts, tx.accountId, amount)
                 ELSE accounts
            /\ procs' = [procs EXCEPT ![r] = IdleProc]
            /\ resp' = [Response("approve", p.sid, 200, p.id)
                         EXCEPT !.oldStatus = p.oldStatus]
  /\ UNCHANGED <<settings, invoicing, nextAccountId, transactions, nextTxId>>

\* updateAccountBalances: the second statement of a transfer
ApproveBalance2(r) ==
  LET p == procs[r]
      tx == p.updatedTransaction
  IN
  /\ p.pc = "balance2"
  /\ accounts' = SqlAddCurrentBalance(accounts, tx.toAccountId, tx.amountInInr)
  /\ procs' = [procs EXCEPT ![r] = IdleProc]
  /\ resp' = [Response("approve", p.sid, 200, p.id) EXCEPT !.oldStatus = p.oldStatus]
  /\ UNCHANGED <<settings, invoicing, nextAccountId, transactions, nextTxId, balanceRuns>>

\* --------------------------------------- concurrent approvals, specification
\* Accounts are opened at zero, transactions drawn on account 1 are submitted,
\* and two approve requests of the administrator run interleaved, each on a
\* transaction the other is not working on.
MaxPending == 2

PendingAccountBodies == [type : {"current"}, openingBalance : {0}, isActive : {TRUE}]

PendingBodies ==
  {b \in [type : TransactionTypes, originalAmount : Amounts,
          exchangeRateToInr : {0}, accountId : {1}, toAccountId : {NULL, 2},
          categoryId : {NULL}, status : {"submitted"}, date : {LedgerDate}] :
     b.type # "transfer" => b.toAccountId = NULL}

InFlight(id) == \E r \in Requests : procs[r].pc # "idle" /\ procs[r].id = id

Quiescent == \A r \in Requests : procs[r].pc = "idle"

PendingAccount ==
  /\ nextAccountId <= MaxAccounts
  /\ \E body \in PendingAccountBodies : PostAccount(1, body)

PendingCreate ==
  /\ nextTxId <= MaxPending
  /\ \E body \in PendingBodies : PostTransaction(1, body)

PendingGate ==
  \E r \in Requests, id \in DOMAIN transactions : ~InFlight(id) /\ ApproveGate(r, 1, id)

PendingSelect == \E r \in Requests : ApproveSelect(r)

PendingUpdate == \E r \in Requests : ApproveUpdate(r)

PendingBalance1 == \E r \in Requests : ApproveBalance1(r)

PendingBalance2 == \E r \in Requests : ApproveBalance2(r)

NextPending ==
  \/ PendingAccount \/ PendingCreate \/ PendingGate \/ PendingSelect \/ PendingUpdate
  \/ PendingBalance1 \/ PendingBalance2

SpecPending == Init /\ [][NextPending]_vars

RECURSIVE ApplyAll(_, _)
\* updateAccountBalances run once for each transaction of T, one after another
ApplyAll(accts, T) ==
  IF T = {} THEN accts
  ELSE LET t == CHOOSE x \in T : TRUE
       IN ApplyAll(updateAccountBalances(accts, transactions[t]), T \ {t})

\* the accounts as they were opened: both balances zero
AsOpened == [a \in DOMAIN accounts |->
               [accounts[a] EXCEPT !.openingBalance = 0, !.currentBalance = 0]]

\* C7: whenever no approve request is in progress, the accounts hold what the
\* approved transactions give when applied one after another: no interleaving
\* of two approvals of different transactions on the same account loses a delta.
C7_NoLostUpdate ==
  Quiescent => accounts = ApplyAll(AsOpened, ApprovedIds)

\* both requests are past their UPDATE of two different transactions of account
\* 1, one having moved the balance already and the other about to
C7_Witness ==
  /\ procs["r1"].pc = "balance2" /\ procs["r2"].pc = "balance1"
  /\ procs["r1"].id # procs["r2"].id
  /\ procs["r1"].updatedTransaction.accountId = procs["r2"].updatedTransaction.accountId
  /\ procs["r2"].updatedTransaction.type = "expense"
  /\ accounts[1].currentBalance = -procs["r1"].updatedTransaction.amountInInr

\* C27: the two balance updates of an approved transfer are separate steps:
\* the first statement of updateAccountBalances takes amountInInr from the
\* source and leaves the destination as it was, the request going on to the
\* second statement, which adds amountInInr to the destination and leaves the
\* source as it was.  Between the two the source is debited and the
\* destination is not yet credited.
C27_TransferInTwoSteps ==
  [][\A r \in Requests :
       LET tx == procs[r].updatedTransaction
           src == tx.accountId
           dst == tx.toAccountId
       IN /\ /\ procs[r].pc = "balance1" /\ procs'[r] # procs[r]
             /\ tx.type = "transfer" /\ dst # NULL
             => /\ procs'[r].pc = "balance2"
                /\ accounts'[src].currentBalance
                     = accounts[src].currentBalance - tx.amountInInr
                /\ accounts'[dst] = accounts[dst]
          /\ procs[r].pc = "balance2" /\ procs'[r] # procs[r]
             => /\ accounts'[dst].currentBalance
                     = accounts[dst].currentBalance + tx.amountInInr
                /\ accounts'[src] = accounts[src]]_vars

\* one approve request of a transfer from account 1 to account 2 stands
\* between the two statements and nothing else is in progress: the transfer is
\* stored as approved, account 1 is debited and account 2 is not yet credited
C27_Witness ==
  /\ procs["r1"].pc = "balance2" /\ procs["r2"].pc = "idle"
  /\ transactions[procs["r1"].id].status = "approved"
  /\ transactions[procs["r1"].id].type = "transfer"
  /\ ApprovedIds = {procs["r1"].id}
  /\ procs["r1"].updatedTransaction.accountId = 1
  /\ procs["r1"].updatedTransaction.toAccountId = 2
  /\ accounts[1].currentBalance = -procs["r1"].updatedTransaction.amountInInr
  /\ accounts[2].currentBalance = 0


\* --------------------------------------------------------------- dashboard
\* the same select without its condition on the status
MonthlyTxAnyStatus(m) ==
  {t \in DOMAIN transactions :
     /\ transactions[t].date >= StartOfMonth(m)
     /\ transactions[t].date <= EndOfMonth(m)}

\* the rows of: select from transactions where date >= startOfMonth and
\* date <= endOfMonth and status = 'approved'
MonthlyTx(m) ==
  {t \in DOMAIN transactions :
     /\ transactions[t].date >= StartOfMonth(m)
     /\ transactions[t].date <= EndOfMonth(m)
     /\ transactions[t].status = "approved"}

\* monthlyTx.filter(t => t.type === type).reduce(sum + Number(t.amountInInr))
SumOfType(T, type) ==
  LET rows == {t \in T : transactions[t].type = type}
  IN SumOver(rows, [t \in rows |-> transactions[t].amountInInr])

\* category?.name || 'Unknown'
CategoryNameOf(c) == IF c \in DOMAIN categories THEN categories[c].name ELSE "Unknown"

\* the rows the loop over monthlyTx adds to expensesByCategory
ExpenseRows(m) ==
  {t \in MonthlyTx(m) : transactions[t].type = "expense" /\ transactions[t].categoryId # NULL}

\* expensesByCategory: category name -> summed amountInInr
ExpensesByCategory(m) ==
  LET rows == ExpenseRows(m)
      names == {CategoryNameOf(transactions[t].categoryId) : t \in rows}
  IN [n \in names |->
        LET of == {t \in rows : CategoryNameOf(transactions[t].categoryId) = n}
        IN SumOver(of, [t \in of |-> transactions[t].amountInInr])]

\* the entries not sliced at all
SliceLengthWhole(n) == n

\* the length of entries.slice(0, 5)
SliceLength(n) == Min(n, TopN)

\* sort((a, b) => b.amount - a.amount).slice(0, 5): the categories that can be
\* kept.  The sort is stable and the rows come in the order the database
\* returns them, which it does not fix: among equal amounts any may be kept.
TopChoices(byCategory) ==
  {K \in SUBSET DOMAIN byCategory :
     /\ Cardinality(K) = SliceLength(Cardinality(DOMAIN byCategory))
     /\ \A k \in K, o \in (DOMAIN byCategory) \ K : byCategory[k] >= byCategory[o]}

\* the od_cc accounts accountsList.find can return (the first in the order the
\* database returns them), NULL when there is none
OdChoices ==
  LET od == {a \in DOMAIN accounts : accounts[a].type = "od_cc"}
  IN IF od = {} THEN {NULL} ELSE od

\* DatabaseStorage.getDashboardStats(month) for month m, the categories K kept
\* and the account od found
DashboardStats(m, K, od) ==
  LET odLimitUsed == IF od = NULL THEN 0 ELSE Abs(Min(0, accounts[od].currentBalance))
      monthlyTx == MonthlyTx(m)
      byCategory == ExpensesByCategory(m)
  IN [month |-> m,
      currentMonthProfitLoss |-> SumOfType(monthlyTx, "income") - SumOfType(monthlyTx, "expense"),
      totalAvailableFunds |->
        SumOver(DOMAIN accounts, [a \in DOMAIN accounts |-> accounts[a].currentBalance]),
      odLimitUsed |-> odLimitUsed,
      odLimitRemaining |-> OdLimit - odLimitUsed,
      topExpenses |-> {[category |-> n, amount |-> byCategory[n]] : n \in K},
      revenueByService |-> {}]

\* GET /api/dashboard/stats?month=: month is the month asked for, or NULL for
\* none, and then the month of today is taken
GetDashboardStats(sid, month, today) ==
  /\ IF sid = NoSession
       THEN resp' = Response("dashboard", sid, 401, NULL)
       ELSE LET m == IF month = NULL THEN MonthOf(today) ELSE month IN
            \E K \in TopChoices(ExpensesByCategory(m)), od \in OdChoices :
              resp' = [Response("dashboard", sid, 200, NULL)
                         EXCEPT !.stats = DashboardStats(m, K, od)]
  /\ UNCHANGED <<settings, invoicing, accounts, nextAccountId, transactions, nextTxId,
                 balanceRuns, procs>>


\* DatabaseStorage.getTransactions(filters), the ids of the rows found (their
\* order, date descending, left aside): each filter given adds its condition,
\* the month one being date >= start and date <= end with
\* end = new Date(start.getFullYear(), start.getMonth() + 1, 0)
getTransactions(filters) ==
  {t \in DOMAIN transactions :
     /\ filters.month # NULL =>
          /\ transactions[t].date >= StartOfMonth(filters.month)
          /\ transactions[t].date <= EndOfMonth(filters.month)
     /\ filters.accountId # NULL => transactions[t].accountId = filters.accountId
     /\ filters.categoryId # NULL => transactions[t].categoryId = filters.categoryId
     /\ filters.status # "" => transactions[t].status = filters.status}

\* GET /api/transactions?month=&accountId=&categoryId=&status=
ListTransactions(sid, filters) ==
  /\ IF isAuthenticated(sid) # 0
       THEN resp' = Response("listTransactions", sid, isAuthenticated(sid), NULL)
       ELSE resp' = [Response("listTransactions", sid, 200, NULL)
                      EXCEPT !.month = filters.month, !.rows = getTransactions(filters)]
  /\ UNCHANGED <<settings, invoicing, accounts, nextAccountId, transactions, nextTxId,
                 balanceRuns, procs>>


\* -------------------------------------------- profit and loss, specification
\* The administrator opens accounts, enters incomes, expenses and transfers
\* dated at the first instant of month 1, at the midnight that opens its last
\* day, later on that last day and at the first instant of month 2, approves
\* them, and reads the dashboard of either month.
MaxStored == 2

Months == {1, 2}

StoredDates ==
  {StartOfMonth(1), EndOfMonth(1), EndOfMonth(1) + 1, StartOfMonth(2)}

Todays == {Instant(1, 1, 1), Instant(2, 1, 1)}

StoredBodies ==
  [type : {"income", "expense", "transfer"}, originalAmount : Amounts,
   exchangeRateToInr : {0}, accountId : {1}, toAccountId : {NULL},
   categoryId : {NULL}, status : {"submitted", "approved"}, date : StoredDates]

ProfitAccount ==
  /\ nextAccountId <= MaxAccounts
  /\ \E body \in GateAccountBodies : PostAccount(1, body)

ProfitCreate ==
  /\ nextTxId <= MaxStored
  /\ \E body \in StoredBodies : PostTransaction(1, body)

ProfitApprove == \E id \in DOMAIN transactions : ApproveTransaction(1, id)

ProfitDashboard ==
  \E month \in Months \cup {NULL}, today \in Todays : GetDashboardStats(1, month, today)

NextProfit == ProfitAccount \/ ProfitCreate \/ ProfitApprove \/ ProfitDashboard

SpecProfit == Init /\ [][NextProfit]_vars

\* the approved transactions dated anywhere in calendar month m
ApprovedInMonth(m) ==
  {t \in DOMAIN transactions :
     transactions[t].status = "approved" /\ MonthOf(transactions[t].date) = m}

\* C9: the dashboard's currentMonthProfitLoss for a month is the sum of
\* amountInInr over the approved incomes dated in that month minus the sum over
\* the approved expenses dated in that month (transactions of any other status
\* counting for nothing).
C9_ProfitLossOfMonth ==
  resp.op = "dashboard" /\ resp.code = 200 =>
    resp.stats.currentMonthProfitLoss
      = SumOfType(ApprovedInMonth(resp.stats.month), "income")
        - SumOfType(ApprovedInMonth(resp.stats.month), "expense")

\* ------------------------------------------------ quiet months, specification
\* The administrator opens one account, a current account or the overdraft
\* account, enters incomes and expenses dated in month 1 or in month 2,
\* submitted or approved, approves them, and reads the dashboard of either
\* month.
MaxQuiet == 2

QuietAccountBodies ==
  [type : {"current", "od_cc"}, openingBalance : {0}, isActive : {TRUE}]

QuietBodies ==
  [type : {"income", "expense"}, originalAmount : Amounts, exchangeRateToInr : {0},
   accountId : {1}, toAccountId : {NULL}, categoryId : {3},
   status : {"submitted", "approved"}, date : {StartOfMonth(1), StartOfMonth(2)}]

QuietAccount ==
  /\ nextAccountId = 1
  /\ \E body \in QuietAccountBodies : PostAccount(1, body)

QuietCreate ==
  /\ nextTxId <= MaxQuiet
  /\ \E body \in QuietBodies : PostTransaction(1, body)

QuietApprove == \E id \in DOMAIN transactions : ApproveTransaction(1, id)

QuietDashboard == \E month \in Months : GetDashboardStats(1, month, StartOfMonth(1))

NextQuiet == QuietAccount \/ QuietCreate \/ QuietApprove \/ QuietDashboard

SpecQuiet == Init /\ [][NextQuiet]_vars

\* C11 as stated: the dashboard of a month holding no approved transaction
\* answers 200 with currentMonthProfitLoss, totalAvailableFunds, odLimitUsed and
\* odLimitRemaining all 0 and with topExpenses and revenueByService empty.
C11_EmptyMonthAllZero ==
  resp.op = "dashboard" /\ ApprovedInMonth(resp.stats.month) = {} =>
    /\ resp.code = 200
    /\ resp.stats.currentMonthProfitLoss = 0
    /\ resp.stats.totalAvailableFunds = 0
    /\ resp.stats.odLimitUsed = 0
    /\ resp.stats.odLimitRemaining = 0
    /\ resp.stats.topExpenses = {}
    /\ resp.stats.revenueByService = {}

\* what an overdraft account of balance b has used of the limit
OdUsedOf(b) == IF b < 0 THEN -b ELSE 0

\* C11 amended: the dashboard of a month holding no approved transaction
\* answers 200 with currentMonthProfitLoss 0 and with topExpenses and
\* revenueByService empty; totalAvailableFunds is the sum of the current
\* balances of all accounts (approved transactions of other months included),
\* odLimitUsed is what an overdraft account is overdrawn by (0 with none), and
\* odLimitRemaining is the limit of 500000 less odLimitUsed.
C11_EmptyMonthFigures ==
  resp.op = "dashboard" /\ ApprovedInMonth(resp.stats.month) = {} =>
    /\ resp.code = 200
    /\ resp.stats.currentMonthProfitLoss = 0
    /\ resp.stats.topExpenses = {}
    /\ resp.stats.revenueByService = {}
    /\ resp.stats.totalAvailableFunds
         = SumOver(DOMAIN accounts, [a \in DOMAIN accounts |-> accounts[a].currentBalance])
    /\ \/ resp.stats.odLimitUsed = 0 /\ \A a \in DOMAIN accounts : accounts[a].type # "od_cc"
       \/ \E a \in DOMAIN accounts :
            accounts[a].type = "od_cc"
              /\ resp.stats.odLimitUsed = OdUsedOf(accounts[a].currentBalance)
    /\ resp.stats.odLimitRemaining = OdLimit - resp.stats.odLimitUsed

\* the dashboard was read for a month holding a transaction that is not approved
\* and no approved one, while an approved expense of another month has the
\* overdraft account overdrawn
C11_Witness ==
  /\ resp.op = "dashboard" /\ resp.code = 200
  /\ ApprovedInMonth(resp.stats.month) = {}
  /\ \E t \in DOMAIN transactions : MonthOf(transactions[t].date) = resp.stats.month
  /\ resp.stats.totalAvailableFunds < 0
  /\ resp.stats.odLimitUsed > 0


\* ----------------------------------------------- top expenses, specification
\* The administrator opens one account and enters expenses of month 1, approved (of amount zero or
\* not) under the first category or under the category numbered like the
\* transaction, or left as drafts under the latter, and reads the dashboard of
\* either month.
MaxExpenses == 6

ExpenseBodies(k) ==
  {b \in [type : {"expense"}, originalAmount : Amounts \cup {0}, exchangeRateToInr : {0},
          accountId : {1}, toAccountId : {NULL}, categoryId : {1, k},
          status : {"draft", "approved"}, date : {StartOfMonth(1)}] :
     b.status = "draft" => b.originalAmount # 0 /\ b.categoryId = k}

TopAccount ==
  /\ nextAccountId = 1
  /\ \E body \in GateAccountBodies : PostAccount(1, body)

TopCreate ==
  /\ nextTxId <= MaxExpenses
  /\ \E body \in ExpenseBodies(nextTxId) : PostTransaction(1, body)

TopDashboard == \E month \in Months : GetDashboardStats(1, month, StartOfMonth(1))

NextTop == TopAccount \/ TopCreate \/ TopDashboard

SpecTop == Init /\ [][NextTop]_vars

\* the approved expenses dated in calendar month m under the category named n
ApprovedExpensesOf(n, m) ==
  {t \in ApprovedInMonth(m) :
     /\ transactions[t].type = "expense"
     /\ transactions[t].categoryId # NULL
     /\ CategoryNameOf(transactions[t].categoryId) = n}

\* C10 as stated: topExpenses has at most 5 entries, and none is a category
\* whose summed approved expense of the period is zero.
C10_AtMostFiveNoneZero ==
  resp.op = "dashboard" /\ resp.code = 200 =>
    /\ Cardinality(resp.stats.topExpenses) <= TopN
    /\ \A e \in resp.stats.topExpenses :
         LET of == ApprovedExpensesOf(e.category, resp.stats.month)
         IN SumOver(of, [t \in of |-> transactions[t].amountInInr]) # 0

\* C10 amended: topExpenses has at most 5 entries, and every entry is a
\* category under which at least one approved expense is dated in the month
\* (its sum may be zero).
C10_AtMostFiveAllSpent ==
  resp.op = "dashboard" /\ resp.code = 200 =>
    /\ Cardinality(resp.stats.topExpenses) <= TopN
    /\ \A e \in resp.stats.topExpenses :
         ApprovedExpensesOf(e.category, resp.stats.month) # {}

\* the dashboard kept 5 of more than 5 categories with approved expenses
C10_Witness ==
  /\ resp.op = "dashboard" /\ resp.code = 200
  /\ Cardinality(resp.stats.topExpenses) = TopN
  /\ Cardinality(DOMAIN ExpensesByCategory(resp.stats.month)) > TopN


\* ------------------------------------------- dormant accounts, specification
\* The administrator opens accounts with the active flag set or cleared, enters
\* incomes and transfers on account 1 or 2 (stored or not), submitted or
\* approved, approves them, and reads the dashboard of either month.
MaxDormant == 1

DormantAccountBodies == [type : {"current"}, openingBalance : {0}, isActive : BOOLEAN]

DormantBodies ==
  {b \in [type : {"income", "transfer"}, originalAmount : Amounts,
          exchangeRateToInr : {0}, accountId : AccountIds,
          toAccountId : AccountIds \cup {NULL}, categoryId : {NULL},
          status : {"submitted", "approved"}, date : {LedgerDate}] :
     (b.type = "transfer") <=> (b.toAccountId # NULL)}

DormantAccount ==
  /\ nextAccountId <= MaxAccounts
  /\ \E body \in DormantAccountBodies : PostAccount(1, body)

DormantCreate ==
  /\ nextTxId <= MaxDormant
  /\ \E body \in DormantBodies : PostTransaction(1, body)

DormantApprove == \E id \in DOMAIN transactions : ApproveTransaction(1, id)

DormantDashboard == \E month \in Months : GetDashboardStats(1, month, StartOfMonth(1))

NextDormant == DormantAccount \/ DormantCreate \/ DormantApprove \/ DormantDashboard

SpecDormant == Init /\ [][NextDormant]_vars

\* C22: when a transaction becomes approved, an account it refers to whose
\* active flag is false keeps its balance, and a create request of the
\* administrator is stored and answered 201 whether or not the accounts it
\* refers to exist: the increment of a missing or inactive account is skipped
\* without failing the write.
C22_MissingOrInactiveSkipped ==
  [][/\ \A t \in DOMAIN transactions' :
          BecomesApproved(t) =>
            \A a \in {transactions'[t].accountId, transactions'[t].toAccountId}
                     \cap DOMAIN accounts :
              ~accounts[a].isActive => accounts'[a] = accounts[a]
     /\ resp'.op = "createTransaction" =>
          resp'.code = 201 /\ DOMAIN transactions' # DOMAIN transactions]_vars

\* C24: the dashboard's totalAvailableFunds is the sum of currentBalance over
\* the accounts whose active flag is true, whatever month is asked for.
C24_FundsOfActiveAccounts ==
  resp.op = "dashboard" /\ resp.code = 200 =>
    resp.stats.totalAvailableFunds =
      LET active == {a \in DOMAIN accounts : accounts[a].isActive}
      IN SumOver(active, [a \in active |-> accounts[a].currentBalance])


\* ------------------------------------------- calendar months, specification
\* A user with a session opens an account, the administrator enters incomes and
\* expenses, submitted or approved, dated at the first instant of month 1, at
\* the midnight that opens its last day, later on that last day and at the
\* first instant of month 2; the transactions are listed, with a month and a
\* status asked for or not, and the dashboard of either month is read.
MaxCalendar == 2

CalendarBodies ==
  [type : {"income", "expense"}, originalAmount : Amounts, exchangeRateToInr : {0},
   accountId : {1}, toAccountId : {NULL}, categoryId : {NULL},
   status : {"submitted", "approved"}, date : StoredDates]

CalendarFilters ==
  [month : Months \cup {NULL}, accountId : {NULL, 1}, categoryId : {NULL},
   status : {"", "approved"}]

CalendarAccount ==
  /\ nextAccountId = 1
  /\ \E body \in GateAccountBodies : PostAccount(1, body)

CalendarCreate ==
  /\ nextTxId <= MaxCalendar
  /\ \E body \in CalendarBodies : PostTransaction(1, body)

CalendarList ==
  \E sid \in {NoSession, 3}, filters \in CalendarFilters : ListTransactions(sid, filters)

CalendarDashboard == \E month \in Months : GetDashboardStats(3, month, StartOfMonth(1))

NextCalendar == CalendarAccount \/ CalendarCreate \/ CalendarList \/ CalendarDashboard

SpecCalendar == Init /\ [][NextCalendar]_vars

\* C25: for a month asked for, the transaction list returns every approved
\* transaction dated anywhere in that calendar month (first instant of its first
\* day to last instant of its last day) and no transaction dated outside it,
\* and the dashboard's profit and loss of the month counts every approved
\* income and expense dated anywhere in the month and none dated outside it.
C25_WholeCalendarMonth ==
  /\ resp.op = "listTransactions" /\ resp.code = 200 /\ resp.month # NULL =>
       /\ ApprovedInMonth(resp.month) \subseteq resp.rows
       /\ \A t \in resp.rows : MonthOf(transactions[t].date) = resp.month
  /\ resp.op = "dashboard" /\ resp.code = 200 =>
       resp.stats.currentMonthProfitLoss
         = SumOfType(ApprovedInMonth(resp.stats.month), "income")
           - SumOfType(ApprovedInMonth(resp.stats.month), "expense")


\* ------------------------------------ racing approvals, specification
\* One account is opened at zero, an income or an expense is submitted, and
\* two approve requests of the administrator run interleaved, both free to
\* work on the same transaction.
MaxRace == 1

RaceBodies ==
  [type : {"income", "expense"}, originalAmount : Amounts, exchangeRateToInr : {0},
   accountId : {1}, toAccountId : {NULL}, categoryId : {NULL},
   status : {"submitted"}, date : {LedgerDate}]

RaceAccount ==
  /\ nextAccountId = 1
  /\ \E body \in PendingAccountBodies : PostAccount(1, body)

RaceCreate ==
  /\ nextTxId <= MaxRace
  /\ \E body \in RaceBodies : PostTransaction(1, body)

RaceGate == \E r \in Requests, id \in DOMAIN transactions : ApproveGate(r, 1, id)

RaceSelect == \E r \in Requests : ApproveSelect(r)

RaceUpdate == \E r \in Requests : ApproveUpdate(r)

RaceBalance == \E r \in Requests : ApproveBalance1(r)

NextRace ==
  RaceAccount \/ RaceCreate \/ RaceGate \/ RaceSelect \/ RaceUpdate \/ RaceBalance

SpecRace == Init /\ [][NextRace]_vars

\* C28: when two approve requests for the same transaction, not yet approved,
\* run concurrently, balance maintenance runs on it at most once in every
\* interleaving, and once no request is in progress the account has moved by
\* the amount of each approved transaction once.
C28_ConcurrentApproveOnce ==
  /\ \A t \in DOMAIN balanceRuns : balanceRuns[t] <= 1
  /\ Quiescent => accounts = ApplyAll(AsOpened, ApprovedIds)


\* ------------------------------------------- revoked roles, specification
\* The administrator (user 1) and the hr user (user 2) keep their sessions.
\* Either session asks for role changes and deletions of either user, which
\* the stored administrators are granted; an account is opened, transactions
\* are submitted, and either session asks for approvals.
MaxRevoke == 2

RevokeSessions == {1, 2}

RevokeRoles == {"admin", "hr"}

RevokeBodies ==
  [type : {"income"}, originalAmount : Amounts, exchangeRateToInr : {0},
   accountId : {1}, toAccountId : {NULL}, categoryId : {NULL},
   status : {"submitted"}, date : {LedgerDate}]

RevokeAccount ==
  /\ nextAccountId = 1
  /\ \E sid \in RevokeSessions, body \in GateAccountBodies : PostAccount(sid, body)

RevokeCreate ==
  /\ nextTxId <= MaxRevoke
  /\ \E sid \in RevokeSessions, body \in RevokeBodies : PostTransaction(sid, body)

RevokePatchUserRole ==
  \E sid \in RevokeSessions, id \in RevokeSessions, role \in RevokeRoles :
    PatchUserRole(sid, id, role)

RevokeDeleteUser ==
  \E sid \in RevokeSessions, id \in RevokeSessions : DeleteUser(sid, id)

RevokeApprove ==
  \E sid \in RevokeSessions, id \in DOMAIN transactions : ApproveTransaction(sid, id)

NextRevoke ==
  \/ RevokeAccount \/ RevokeCreate \/ RevokePatchUserRole \/ RevokeDeleteUser
  \/ RevokeApprove

SpecRevoke == Init /\ [][NextRevoke]_vars

\* C29: authorization goes by the role stored when the request is served: an
\* approve request from a session whose user is, at that time, stored with a
\* role other than admin or no longer stored (the role changed or the user
\* deleted since the session was opened) is answered 403 and changes neither
\* the transactions nor the accounts.
C29_RoleAtRequestTime ==
  [][/\ resp'.op = "approve" /\ resp'.sid # NoSession
     /\ \/ resp'.sid \notin DOMAIN appUsers
        \/ appUsers[resp'.sid].role # "admin"
     => /\ resp'.code = 403
        /\ transactions' = transactions /\ accounts' = accounts
        /\ balanceRuns' = balanceRuns]_vars

\* the session of user 1, who approved a transaction as administrator and was
\* then given another role, was answered 403 on the approval of a submitted
\* transaction, which is still submitted
C29_Witness ==
  /\ resp.op = "approve" /\ resp.code = 403 /\ resp.sid = 1
  /\ 1 \in DOMAIN appUsers /\ appUsers[1].role # "admin"
  /\ \E t \in DOMAIN transactions :
       transactions[t].status = "approved" /\ transactions[t].approvedBy = 1
  /\ resp.id \in DOMAIN transactions
  /\ transactions[resp.id].status = "submitted"


\* ------------------------------------------ forged bodies, specification
\* The hr user opens an account; the hr, manager and data entry users send
\* create requests whose body, besides amount and rate, carries a createdBy
\* naming another user (the administrator or the manager) and an amountInInr
\* that is not the product of the amount and the rate.
MaxForge == 2

ForgeSessions == {2, 3, 4}

ForgedCreators == {1, 3}

ForgedAmounts == {1, 999999}

\* amounts of 3.00, 3.33 and 10.00, the rate left out or 1.05 (3.33 * 1.05 =
\* 3.4965)
ForgeBodies ==
  [type : {"income"}, originalAmount : {300, 333, 1000}, exchangeRateToInr : {0, 105},
   accountId : {1}, toAccountId : {NULL}, categoryId : {NULL}, status : {"draft"},
   date : {LedgerDate}, createdBy : ForgedCreators, amountInInr : ForgedAmounts]

ForgeAccount ==
  /\ nextAccountId = 1
  /\ \E body \in GateAccountBodies : PostAccount(2, body)

ForgeCreate ==
  /\ nextTxId <= MaxForge
  /\ \E sid \in ForgeSessions, body \in ForgeBodies : PostTransaction(sid, body)

NextForge == ForgeAccount \/ ForgeCreate

SpecForge == Init /\ [][NextForge]_vars

\* C30: the body of a create request cannot choose the server-derived fields:
\* whatever createdBy and amountInInr the body carries, the stored createdBy is
\* the id of the session's user and the stored amountInInr is the original
\* amount times the stored rate (1 when the body gave none) rounded to two
\* decimals, so two requests of one user that differ in these two fields only
\* store the same row.
C30_ServerDerivedFields ==
  [][resp'.op = "createTransaction" /\ resp'.code = 201 =>
       LET row == transactions'[resp'.id] IN
       /\ row.createdBy = resp'.sid
       /\ row.exchangeRateToInr # 0
       /\ row.amountInInr = ToFixed2(row.originalAmount * row.exchangeRateToInr)
       /\ row.createdBy \notin ForgedCreators
       /\ row.amountInInr \notin ForgedAmounts]_vars

\* the hr user's request for 3.33 at rate 1.05, its body naming another
\* creator and another amount, is stored with createdBy 2 and amountInInr
\* 3.50, after a request with the same amount and rate stored the same two
\* values
C30_Witness ==
  /\ resp.op = "createTransaction" /\ resp.code = 201 /\ resp.sid = 2
  /\ resp.id = 2
  /\ \A t \in {1, 2} :
       /\ transactions[t].createdBy = 2
       /\ transactions[t].originalAmount = 333
       /\ transactions[t].exchangeRateToInr = 105
       /\ transactions[t].amountInInr = 350

====
